---- MODULE Spec2Model ----
(***************************************************************************)
(* Order lifecycle, engagements and ranking scores of the booth backend.   *)
(*                                                                         *)
(* The store is the relational database behind Prisma: the product rows,   *)
(* the order rows, the engagement rows and the (user, category) score      *)
(* rows.  Six specifications share it:                                     *)
(*   Spec            the handlers of order.controller.ts and               *)
(*                   product.controller.ts, each run to completion;        *)
(*   SpecEngagement  the handlers of the engagement controller, each run   *)
(*                   to completion;                                        *)
(*   SpecAdjust      RankingService.adjustRanking run by several requests, *)
(*                   interleaved at its awaits;                            *)
(*   SpecOrderRace   OrderService.createOrder, cancelOrder and             *)
(*                   updateOrderStatus run by several requests,            *)
(*                   interleaved at their awaits;                          *)
(*   SpecStockRace   the same with createOrder and cancelOrder only;       *)
(*   SpecLikeRace    EngagementService.createLike run by several requests, *)
(*                   interleaved at its awaits.                            *)
(* Money is kept in integer hundredths, scores in integer thousandths.     *)
(***************************************************************************)
EXTENDS Integers, Sequences, FiniteSets, TLC

(* ------------------------------ bounds -------------------------------- *)

\* at most this many order rows are ever inserted
MaxOrders == 1
\* at most this many engagement rows are ever inserted
MaxEngagements == 2
\* each request serves at most this many service calls
MaxCalls == 2

(* --------------------------- input domains ---------------------------- *)

Users == {"u1", "u2", "u3"}
\* the user who lists the product, and the users who place orders
Sellers == {"u1"}
Buyers == {"u1", "u2"}
ProductId == "p1"
\* price of the product (10.00) and the stock it is listed with
Prices == {1000}
Stocks == {1, 2, 5}
Quantities == {1, 2}
\* What the client adds to price * quantity in the total it submits.  A
\* difference of exactly one hundredth is left out: there the outcome of the
\* floating-point comparison with 0.01 depends on the rounding of the operands.
PriceDeltas == {-2, 0, 2}
Addresses == {"a1"}

OrderStatus == {"pending", "processing", "shipped", "completed", "canceled"}

\* the users who like, comment and share, and the content they do it on
Actors == {"u1", "u2"}
ContentId == "c1"
\* an absent contentOwnerId
NoOwner == ""
Owners == Actors \cup {NoOwner}
\* comment texts as character sequences: empty, blank, and a real one
Comments == {<<>>, <<" ">>, <<"h", "i">>}
NoComment == <<>>
EngagementType == {"Like", "Comment", "Share"}
NoEngagement == [id |-> 0]
\* the ranking categories the services write to
Categories == {"content", "sales", "reputation"}

\* the requests that run adjustRanking side by side; a request at rest has
\* served some number of calls
Requests == {1, 2}
Idle == [pc |-> "idle", served |-> 0]
\* the pairs and the adjustments of the calls that run side by side
CallUsers == {"u1"}
CallCategories == {"content", "sales"}
CallDeltas == {-1000, 1000, 3000}

OK == "ok"
NoOrder == [id |-> 0]

(* error messages thrown by the services *)
ErrProductNotFound == "Product not found"
ErrNotAvailable == "Product is not available for purchase"
ErrNotEnoughStock == "Not enough stock available"
ErrPriceMismatch == "Price mismatch - order price does not match current product price"
ErrOrderNotFound == "Order not found"
ErrNotAuthorizedUpdate == "You are not authorized to update this order"
ErrNotAuthorizedCancel == "You are not authorized to cancel this order"
ErrCannotTransition == "Cannot transition from <current> to <new>"
ErrCompletedTerminal == "Cannot change status of a completed order"
ErrCanceledTerminal == "Cannot change status of a canceled order"
ErrSellersCanOnly == "Sellers can only set orders to processing, shipped, or completed"
ErrBuyersCanOnly == "Buyers can only cancel pending orders"
ErrOnlyPending == "Only pending orders can be canceled"
ErrCannotUpdateCompleted == "Cannot update a completed order"
ErrOwnProducts == "You can only update your own products"
\* the answer of a handler whose body does not parse
ErrInvalidData == "Invalid data"
ErrAlreadyLiked == "User has already liked this content"
ErrLikeNotFound == "Like not found"
ErrCommentRequired == "Comment content is required"
ErrCommentNotFound == "Comment not found"
ErrNotAuthorizedDelete == "You are not authorized to delete this comment"
\* the rejection of a Prisma call (the database refuses or is unreachable)
ErrStore == "store error"
\* the rejection of userRanking.create by the unique key userId_categoryId
ErrUniqueConstraint == "Unique constraint failed on the fields: (userId, categoryId)"

VARIABLES
    products,   \* product id -> product row
    orders,     \* sequence of order rows; an order's id is its index
    rankings,   \* sequence of score rows (user, category, score in thousandths)
    engagements,      \* the set of engagement rows (likes, comments, shares)
    lastEngagementId, \* the id the database gave to the newest engagement row
    calls,      \* request -> the service call it is running, step by step
    listedStock \* history: the stock the product was listed with

vars == <<products, orders, rankings, engagements, lastEngagementId, calls, listedStock>>

\* what the order handlers never touch
engagementVars == <<engagements, lastEngagementId, calls, listedStock>>

(* ------------------------- product repository ------------------------- *)

\* fields of `data` overwrite those of `row`
Merge(row, data) ==
    [f \in DOMAIN row |-> IF f \in DOMAIN data THEN data[f] ELSE row[f]]

ProductRepository_update(prods, id, data) ==
    [prods EXCEPT ![id] = Merge(@, data)]

\* ProductService.updateProduct: the error thrown (or OK) and the product rows
\* afterwards.  storeOk is whether the database accepts the write.
ProductService_updateProduct(prods, productId, userId, updateData, isAdmin, storeOk) ==
    IF productId \notin DOMAIN prods
    THEN [err |-> ErrProductNotFound, products |-> prods]
    ELSE IF ~isAdmin /\ prods[productId].sellerId # userId
    THEN [err |-> ErrOwnProducts, products |-> prods]
    ELSE IF ~storeOk
    THEN [err |-> ErrStore, products |-> prods]
    ELSE [err |-> OK, products |-> ProductRepository_update(prods, productId, updateData)]

(* -------------------------- order repository -------------------------- *)

OrderRepository_create(ords, data) ==
    Append(ords,
           [id |-> Len(ords) + 1,
            buyerId |-> data.buyerId,
            productId |-> data.productId,
            quantity |-> data.quantity,
            totalPrice |-> data.totalPrice,
            status |-> IF "status" \in DOMAIN data THEN data.status ELSE "pending",
            shippingAddress |-> IF "shippingAddress" \in DOMAIN data
                                THEN data.shippingAddress ELSE "none"])

\* the order row joined with its product row, or NoOrder
OrderRepository_findById(ords, prods, id) ==
    IF id \in 1..Len(ords)
    THEN [id |-> id,
          buyerId |-> ords[id].buyerId,
          productId |-> ords[id].productId,
          quantity |-> ords[id].quantity,
          totalPrice |-> ords[id].totalPrice,
          status |-> ords[id].status,
          shippingAddress |-> ords[id].shippingAddress,
          product |-> prods[ords[id].productId]]
    ELSE NoOrder

OrderRepository_update(ords, id, data) ==
    [ords EXCEPT ![id] = Merge(@, data)]

(* ---------------------------- order service --------------------------- *)

\* Faulty variant of validateStatusTransition: the switch has no case for the
\* terminal states, so they fall through to the role rules.
validateStatusTransition_NoTerminal(currentStatus, newStatus, userId, order) ==
    LET table ==
            CASE currentStatus = "pending" ->
                     IF newStatus \notin {"processing", "completed", "canceled"}
                     THEN ErrCannotTransition ELSE OK
              [] currentStatus = "processing" ->
                     IF newStatus \notin {"completed", "shipped", "canceled"}
                     THEN ErrCannotTransition ELSE OK
              [] currentStatus = "shipped" ->
                     IF newStatus # "completed" THEN ErrCannotTransition ELSE OK
              [] OTHER -> OK
        isSeller == userId = order.product.sellerId
        isBuyer == userId = order.buyerId
    IN  IF table # OK THEN table
        ELSE IF isSeller /\ newStatus \notin {"processing", "shipped", "completed"}
        THEN ErrSellersCanOnly
        ELSE IF isBuyer /\ newStatus # "canceled"
        THEN ErrBuyersCanOnly
        ELSE OK

\* OrderService.validateStatusTransition: the error it throws, or OK
validateStatusTransition(currentStatus, newStatus, userId, order) ==
    LET table ==
            CASE currentStatus = "pending" ->
                     IF newStatus \notin {"processing", "completed", "canceled"}
                     THEN ErrCannotTransition ELSE OK
              [] currentStatus = "processing" ->
                     IF newStatus \notin {"completed", "shipped", "canceled"}
                     THEN ErrCannotTransition ELSE OK
              [] currentStatus = "shipped" ->
                     IF newStatus # "completed" THEN ErrCannotTransition ELSE OK
              [] currentStatus = "completed" -> ErrCompletedTerminal
              [] currentStatus = "canceled" -> ErrCanceledTerminal
        isSeller == userId = order.product.sellerId
        isBuyer == userId = order.buyerId
    IN  IF table # OK THEN table
        ELSE IF isSeller /\ newStatus \notin {"processing", "shipped", "completed"}
        THEN ErrSellersCanOnly
        ELSE IF isBuyer /\ newStatus # "canceled"
        THEN ErrBuyersCanOnly
        ELSE OK

\* Faulty variant of createOrderChecks: the price is compared before the stock.
createOrderChecks_PriceFirst(prods, orderData) ==
    IF orderData.productId \notin DOMAIN prods THEN ErrProductNotFound
    ELSE LET product == prods[orderData.productId]
             calculatedPrice == product.price * orderData.quantity
             diff == calculatedPrice - orderData.totalPrice
             abs == IF diff < 0 THEN -diff ELSE diff
         IN  IF ~product.isActive THEN ErrNotAvailable
             ELSE IF abs > 1 THEN ErrPriceMismatch
             ELSE IF product.stock < orderData.quantity THEN ErrNotEnoughStock
             ELSE OK

\* OrderService.createOrder's checks before the order is inserted
createOrderChecks(prods, orderData) ==
    IF orderData.productId \notin DOMAIN prods THEN ErrProductNotFound
    ELSE LET product == prods[orderData.productId]
             calculatedPrice == product.price * orderData.quantity
             diff == calculatedPrice - orderData.totalPrice
             abs == IF diff < 0 THEN -diff ELSE diff
         IN  IF ~product.isActive THEN ErrNotAvailable
             ELSE IF product.stock < orderData.quantity THEN ErrNotEnoughStock
             ELSE IF abs > 1 THEN ErrPriceMismatch
             ELSE OK

\* Faulty variant of OrderService_createOrder: the stock is lowered by one
\* whatever the quantity.
OrderService_createOrder_DecrementOne(prods, ords, orderData, storeOk) ==
    LET check == createOrderChecks(prods, orderData)
    IN  IF check # OK
        THEN [err |-> check, orders |-> ords, products |-> prods]
        ELSE LET product == prods[orderData.productId]
                 created == OrderRepository_create(ords, orderData)
                 up == ProductService_updateProduct(
                           prods, orderData.productId, product.sellerId,
                           [stock |-> product.stock - 1],
                           TRUE, storeOk)
             IN  [err |-> up.err, orders |-> created, products |-> up.products]

\* OrderService.createOrder: the error thrown (or OK) and the store afterwards
OrderService_createOrder(prods, ords, orderData, storeOk) ==
    LET check == createOrderChecks(prods, orderData)
    IN  IF check # OK
        THEN [err |-> check, orders |-> ords, products |-> prods]
        ELSE LET product == prods[orderData.productId]
                 created == OrderRepository_create(ords, orderData)
                 up == ProductService_updateProduct(
                           prods, orderData.productId, product.sellerId,
                           [stock |-> product.stock - orderData.quantity],
                           TRUE, storeOk)
             IN  [err |-> up.err, orders |-> created, products |-> up.products]

\* Faulty variant of OrderService_updateOrderStatus: the transition is validated
\* before the caller's authorization is checked.
OrderService_updateOrderStatus_ValidateFirst(prods, ords, orderId, status, userId, isAdmin) ==
    LET order == OrderRepository_findById(ords, prods, orderId)
        unchanged(e) == [err |-> e, orders |-> ords, products |-> prods]
    IN  IF order.id = 0 THEN unchanged(ErrOrderNotFound)
        ELSE LET v == validateStatusTransition(order.status, status, userId, order)
             IN  IF v # OK THEN unchanged(v)
                 ELSE IF ~isAdmin /\ order.product.sellerId # userId
                         /\ order.buyerId # userId
                 THEN unchanged(ErrNotAuthorizedUpdate)
                 ELSE [err |-> OK,
                       orders |-> OrderRepository_update(ords, orderId, [status |-> status]),
                       products |-> prods]

\* OrderService.updateOrderStatus
OrderService_updateOrderStatus(prods, ords, orderId, status, userId, isAdmin) ==
    LET order == OrderRepository_findById(ords, prods, orderId)
        unchanged(e) == [err |-> e, orders |-> ords, products |-> prods]
    IN  IF order.id = 0 THEN unchanged(ErrOrderNotFound)
        ELSE IF ~isAdmin /\ order.product.sellerId # userId /\ order.buyerId # userId
        THEN unchanged(ErrNotAuthorizedUpdate)
        ELSE LET v == validateStatusTransition(order.status, status, userId, order)
             IN  IF v # OK THEN unchanged(v)
                 ELSE [err |-> OK,
                       orders |-> OrderRepository_update(ords, orderId, [status |-> status]),
                       products |-> prods]

\* OrderService.updateOrder
OrderService_updateOrder(prods, ords, orderId, updateData, userId, isAdmin) ==
    LET order == OrderRepository_findById(ords, prods, orderId)
        unchanged(e) == [err |-> e, orders |-> ords, products |-> prods]
    IN  IF order.id = 0 THEN unchanged(ErrOrderNotFound)
        ELSE IF ~isAdmin /\ order.buyerId # userId
        THEN unchanged(ErrNotAuthorizedUpdate)
        ELSE IF order.status = "completed" /\ ~isAdmin
        THEN unchanged(ErrCannotUpdateCompleted)
        ELSE [err |-> OK,
              orders |-> OrderRepository_update(ords, orderId, updateData),
              products |-> prods]

\* Faulty variant of OrderService_cancelOrder: the status of the order is not
\* looked at.
OrderService_cancelOrder_NoPendingCheck(prods, ords, orderId, userId, isAdmin, storeOk) ==
    LET order == OrderRepository_findById(ords, prods, orderId)
        unchanged(e) == [err |-> e, orders |-> ords, products |-> prods]
    IN  IF order.id = 0 THEN unchanged(ErrOrderNotFound)
        ELSE IF ~isAdmin /\ order.buyerId # userId /\ order.product.sellerId # userId
        THEN unchanged(ErrNotAuthorizedCancel)
        ELSE LET updated == OrderRepository_update(ords, orderId, [status |-> "canceled"])
                 up == ProductService_updateProduct(
                           prods, order.productId, order.product.sellerId,
                           [stock |-> order.product.stock + order.quantity],
                           TRUE, storeOk)
             IN  [err |-> up.err, orders |-> updated, products |-> up.products]

\* OrderService.cancelOrder
OrderService_cancelOrder(prods, ords, orderId, userId, isAdmin, storeOk) ==
    LET order == OrderRepository_findById(ords, prods, orderId)
        unchanged(e) == [err |-> e, orders |-> ords, products |-> prods]
    IN  IF order.id = 0 THEN unchanged(ErrOrderNotFound)
        ELSE IF ~isAdmin /\ order.buyerId # userId /\ order.product.sellerId # userId
        THEN unchanged(ErrNotAuthorizedCancel)
        ELSE IF order.status # "pending"
        THEN unchanged(ErrOnlyPending)
        ELSE LET updated == OrderRepository_update(ords, orderId, [status |-> "canceled"])
                 up == ProductService_updateProduct(
                           prods, order.productId, order.product.sellerId,
                           [stock |-> order.product.stock + order.quantity],
                           TRUE, storeOk)
             IN  [err |-> up.err, orders |-> updated, products |-> up.products]

(* ------------------------------ rankings ------------------------------ *)

\* the positions of the rows of a (user, category) pair
RankingRows(ranks, userId, categoryId) ==
    {i \in 1..Len(ranks) : ranks[i].userId = userId /\ ranks[i].categoryId = categoryId}

\* RankingRepository.findRanking (findUnique on userId_categoryId): whether the
\* pair has a row, and its score
RankingRepository_findRanking(ranks, userId, categoryId) ==
    LET rows == RankingRows(ranks, userId, categoryId)
    IN  IF rows = {} THEN [found |-> FALSE, score |-> 0]
        ELSE [found |-> TRUE, score |-> ranks[CHOOSE i \in rows : TRUE].score]

\* Faulty variant of RankingRepository_createRanking: the table has no unique key
\* on (userId, categoryId) and takes every insert.
RankingRepository_createRanking_NoUniqueKey(ranks, userId, categoryId, score) ==
    [err |-> OK,
     rankings |-> Append(ranks, [userId |-> userId, categoryId |-> categoryId,
                                 score |-> score])]

\* RankingRepository.createRanking: the insert is refused when the pair already
\* has a row (the compound unique key userId_categoryId)
RankingRepository_createRanking(ranks, userId, categoryId, score) ==
    IF RankingRows(ranks, userId, categoryId) # {}
    THEN [err |-> ErrUniqueConstraint, rankings |-> ranks]
    ELSE [err |-> OK,
          rankings |-> Append(ranks, [userId |-> userId, categoryId |-> categoryId,
                                      score |-> score])]

\* RankingRepository.updateRanking: writes the score it is handed to the row of
\* the pair
RankingRepository_updateRanking(ranks, userId, categoryId, score) ==
    LET rows == RankingRows(ranks, userId, categoryId)
    IN  IF rows = {} THEN [err |-> ErrStore, rankings |-> ranks]
        ELSE [err |-> OK,
              rankings |-> [i \in 1..Len(ranks) |->
                               IF i \in rows THEN [ranks[i] EXCEPT !.score = score]
                               ELSE ranks[i]]]

\* Faulty variant of adjustRanking: the adjustment is written as the score.
adjustRanking_Overwrite(ranks, userId, categoryId, adjustment) ==
    LET existingRanking == RankingRepository_findRanking(ranks, userId, categoryId)
    IN  IF existingRanking.found
        THEN RankingRepository_updateRanking(ranks, userId, categoryId,
                                             adjustment).rankings
        ELSE RankingRepository_createRanking(ranks, userId, categoryId,
                                             adjustment).rankings

\* RankingService.adjustRanking run without interruption: the score rows
\* afterwards
adjustRanking(ranks, userId, categoryId, adjustment) ==
    LET existingRanking == RankingRepository_findRanking(ranks, userId, categoryId)
    IN  IF existingRanking.found
        THEN RankingRepository_updateRanking(ranks, userId, categoryId,
                                             existingRanking.score + adjustment).rankings
        ELSE RankingRepository_createRanking(ranks, userId, categoryId,
                                             adjustment).rankings

\* RankingService.applyOrderCompletionRanking: the error thrown (or OK) and the
\* score rows afterwards.  orderValue is in hundredths and scores are in
\* thousandths, so orderValue * 0.1 is orderValue * 10 / 10.  salesOk and repOk
\* are whether the database accepts the calls of the first and of the second
\* adjustRanking.
applyOrderCompletionRanking(ranks, sellerId, buyerId, orderValue, wasSuccessful, salesOk, repOk) ==
    LET salesAdjustment == IF wasSuccessful THEN orderValue ELSE -(orderValue \div 2)
        repAdjustment == IF wasSuccessful THEN 5 * 1000 ELSE -(10 * 1000)
    IN  IF ~salesOk THEN [err |-> ErrStore, rankings |-> ranks]
        ELSE LET afterSales == adjustRanking(ranks, sellerId, "sales", salesAdjustment)
             IN  IF ~repOk THEN [err |-> ErrStore, rankings |-> afterSales]
                 ELSE [err |-> OK,
                       rankings |-> adjustRanking(afterSales, sellerId, "reputation",
                                                  repAdjustment)]

\* RankingService.applyPostEngagementRanking: the error thrown (or OK) and the
\* score rows afterwards.  Scores are in thousandths, so a like weighs 1000.
\* storeOk is whether the database accepts the calls of adjustRanking.
applyPostEngagementRanking(ranks, userId, engagementType, engagementValue, storeOk) ==
    LET adjustment ==
            CASE engagementType = "like" -> 1 * engagementValue * 1000
              [] engagementType = "comment" -> 3 * engagementValue * 1000
              [] engagementType = "share" -> 5 * engagementValue * 1000
              [] OTHER -> 0
    IN  IF storeOk
        THEN [err |-> OK, rankings |-> adjustRanking(ranks, userId, "content", adjustment)]
        ELSE [err |-> ErrStore, rankings |-> ranks]

(* ------------------------ engagement repository ----------------------- *)

\* EngagementRepository.create: the rows afterwards and the id of the new row
EngagementRepository_create(engs, lastId, data) ==
    [engagements |-> engs \cup {[id |-> lastId + 1,
                                 userId |-> data.userId,
                                 contentId |-> data.contentId,
                                 contentType |-> data.contentType,
                                 type |-> data.type,
                                 comment |-> data.comment]},
     lastId |-> lastId + 1]

\* EngagementRepository.findById
EngagementRepository_findById(engs, id) ==
    IF \E e \in engs : e.id = id
    THEN CHOOSE e \in engs : e.id = id
    ELSE NoEngagement

\* EngagementRepository.delete
EngagementRepository_delete(engs, id) == {e \in engs : e.id # id}

\* EngagementRepository.findUserEngagement (findFirst): a row of this user, on
\* this content, of this type, or NoEngagement
EngagementRepository_findUserEngagement(engs, userId, contentId, type) ==
    LET found == {e \in engs : e.userId = userId /\ e.contentId = contentId
                                  /\ e.type = type}
    IN  IF found = {} THEN NoEngagement ELSE CHOOSE e \in found : TRUE

(* -------------------------- engagement service ------------------------ *)

\* `contentOwnerId && contentOwnerId !== userId`
OwnerIsKnown(contentOwnerId, userId) ==
    contentOwnerId # NoOwner /\ contentOwnerId # userId

\* comment.trim().length === 0
IsBlank(comment) == \A i \in 1..Len(comment) : comment[i] = " "

\* Faulty variant of BestEffortRanking: no try/catch, the error of the ranking
\* update reaches the caller.
BestEffortRanking_Rethrow(ranks, userId, contentOwnerId, engagementType, engagementValue, rankOk) ==
    IF OwnerIsKnown(contentOwnerId, userId)
    THEN applyPostEngagementRanking(ranks, contentOwnerId, engagementType,
                                    engagementValue, rankOk)
    ELSE [err |-> OK, rankings |-> ranks]

\* the ranking update that follows an engagement write, inside its try/catch:
\* the error of applyPostEngagementRanking is logged and none leaves the block;
\* the score rows are those the call left
BestEffortRanking(ranks, userId, contentOwnerId, engagementType, engagementValue, rankOk) ==
    IF OwnerIsKnown(contentOwnerId, userId)
    THEN [err |-> OK,
          rankings |-> applyPostEngagementRanking(ranks, contentOwnerId, engagementType,
                                                  engagementValue, rankOk).rankings]
    ELSE [err |-> OK, rankings |-> ranks]

\* what an engagement operation hands back once its own write is committed: the
\* rows after the write, and whatever the ranking block let through
Committed(engs, lastId, ranking) ==
    [err |-> ranking.err, engagements |-> engs, lastId |-> lastId,
     rankings |-> ranking.rankings]

\* Faulty variant of EngagementService_createLike: no look-up of an existing
\* like before the insert.
EngagementService_createLike_NoLookup(engs, lastId, ranks, userId, contentId, contentType, contentOwnerId, rankOk) ==
    LET like == EngagementRepository_create(
                    engs, lastId,
                    [userId |-> userId, contentId |-> contentId,
                     contentType |-> contentType, type |-> "Like",
                     comment |-> NoComment])
    IN  Committed(like.engagements, like.lastId,
                  BestEffortRanking(ranks, userId, contentOwnerId, "like", 1, rankOk))

\* EngagementService.createLike: the error thrown (or OK) and the store afterwards
EngagementService_createLike(engs, lastId, ranks, userId, contentId, contentType, contentOwnerId, rankOk) ==
    LET existingLike == EngagementRepository_findUserEngagement(engs, userId,
                                                                contentId, "Like")
    IN  IF existingLike.id # 0
        THEN [err |-> ErrAlreadyLiked, engagements |-> engs, lastId |-> lastId,
              rankings |-> ranks]
        ELSE LET like == EngagementRepository_create(
                             engs, lastId,
                             [userId |-> userId, contentId |-> contentId,
                              contentType |-> contentType, type |-> "Like",
                              comment |-> NoComment])
             IN  Committed(like.engagements, like.lastId,
                  BestEffortRanking(ranks, userId, contentOwnerId, "like", 1, rankOk))

\* Faulty variant of EngagementService_removeLike: the like is deleted and the
\* owner's score is left as it is.
EngagementService_removeLike_KeepsScore(engs, lastId, ranks, userId, contentId, contentOwnerId, rankOk) ==
    LET existingLike == EngagementRepository_findUserEngagement(engs, userId,
                                                                contentId, "Like")
    IN  IF existingLike.id = 0
        THEN [err |-> ErrLikeNotFound, engagements |-> engs, lastId |-> lastId,
              rankings |-> ranks]
        ELSE [err |-> OK,
              engagements |-> EngagementRepository_delete(engs, existingLike.id),
              lastId |-> lastId,
              rankings |-> ranks]

\* EngagementService.removeLike
EngagementService_removeLike(engs, lastId, ranks, userId, contentId, contentOwnerId, rankOk) ==
    LET existingLike == EngagementRepository_findUserEngagement(engs, userId,
                                                                contentId, "Like")
    IN  IF existingLike.id = 0
        THEN [err |-> ErrLikeNotFound, engagements |-> engs, lastId |-> lastId,
              rankings |-> ranks]
        ELSE Committed(EngagementRepository_delete(engs, existingLike.id), lastId,
                  BestEffortRanking(ranks, userId, contentOwnerId, "like", -1, rankOk))

\* EngagementService.createComment
EngagementService_createComment(engs, lastId, ranks, userId, contentId, contentType, comment, contentOwnerId, rankOk) ==
    IF Len(comment) = 0 \/ IsBlank(comment)
    THEN [err |-> ErrCommentRequired, engagements |-> engs, lastId |-> lastId,
          rankings |-> ranks]
    ELSE LET engagement == EngagementRepository_create(
                               engs, lastId,
                               [userId |-> userId, contentId |-> contentId,
                                contentType |-> contentType, type |-> "Comment",
                                comment |-> comment])
         IN  Committed(engagement.engagements, engagement.lastId,
                  BestEffortRanking(ranks, userId, contentOwnerId, "comment", 1, rankOk))

\* Faulty variant of EngagementService_deleteComment: the ranking is lowered
\* before the caller's authorization is checked.
EngagementService_deleteComment_RankingFirst(engs, lastId, ranks, commentId, userId, isAdmin, contentOwnerId, rankOk) ==
    LET comment == EngagementRepository_findById(engs, commentId)
        lowered == BestEffortRanking(ranks, userId, contentOwnerId, "comment", -1,
                                     rankOk).rankings
    IN  IF comment.id = 0
        THEN [err |-> ErrCommentNotFound, engagements |-> engs, lastId |-> lastId,
              rankings |-> ranks]
        ELSE IF ~isAdmin /\ comment.userId # userId
        THEN [err |-> ErrNotAuthorizedDelete, engagements |-> engs, lastId |-> lastId,
              rankings |-> lowered]
        ELSE [err |-> OK,
              engagements |-> EngagementRepository_delete(engs, commentId),
              lastId |-> lastId,
              rankings |-> lowered]

\* EngagementService.deleteComment
EngagementService_deleteComment(engs, lastId, ranks, commentId, userId, isAdmin, contentOwnerId, rankOk) ==
    LET comment == EngagementRepository_findById(engs, commentId)
    IN  IF comment.id = 0
        THEN [err |-> ErrCommentNotFound, engagements |-> engs, lastId |-> lastId,
              rankings |-> ranks]
        ELSE IF ~isAdmin /\ comment.userId # userId
        THEN [err |-> ErrNotAuthorizedDelete, engagements |-> engs, lastId |-> lastId,
              rankings |-> ranks]
        ELSE Committed(EngagementRepository_delete(engs, commentId), lastId,
                  BestEffortRanking(ranks, userId, contentOwnerId, "comment", -1, rankOk))

\* EngagementService.createShare
EngagementService_createShare(engs, lastId, ranks, userId, contentId, contentType, contentOwnerId, rankOk) ==
    LET share == EngagementRepository_create(
                     engs, lastId,
                     [userId |-> userId, contentId |-> contentId,
                      contentType |-> contentType, type |-> "Share",
                      comment |-> NoComment])
    IN  Committed(share.engagements, share.lastId,
                  BestEffortRanking(ranks, userId, contentOwnerId, "share", 1, rankOk))

(* ----------------------------- controllers ---------------------------- *)

\* zod's object parse keeps the keys of the schema and strips the others
Strip(body, keys) == [k \in DOMAIN body \cap keys |-> body[k]]

\* orderCreateSchema
orderCreateSchema == {"productId", "quantity", "totalPrice", "shippingAddress"}

\* orderUpdateSchema
orderUpdateSchema == {"shippingAddress", "status"}

\* OrderController.createOrder: the parsed body with the caller as buyer
OrderController_createOrder(prods, ords, body, userId, storeOk) ==
    OrderService_createOrder(
        prods, ords,
        ("buyerId" :> userId) @@ Strip(body, orderCreateSchema),
        storeOk)

\* OrderController.updateOrderStatus: the service call and nothing else; the
\* handler holds no RankingService and the score rows stay as they are
OrderController_updateOrderStatus(prods, ords, ranks, orderId, status, userId, isAdmin) ==
    LET r == OrderService_updateOrderStatus(prods, ords, orderId, status, userId, isAdmin)
    IN  [err |-> r.err, orders |-> r.orders, products |-> r.products, rankings |-> ranks]

\* Faulty variant of OrderController_updateOrder: the parsed body goes to
\* updateOrder whether or not it carries a status.
OrderController_updateOrder_NoDispatch(prods, ords, orderId, body, userId, isAdmin) ==
    OrderService_updateOrder(prods, ords, orderId, Strip(body, orderUpdateSchema),
                             userId, isAdmin)

\* OrderController.updateOrder: a body that carries a status goes to
\* updateOrderStatus, any other body to updateOrder
OrderController_updateOrder(prods, ords, orderId, body, userId, isAdmin) ==
    LET data == Strip(body, orderUpdateSchema)
    IN  IF "status" \in DOMAIN data
        THEN OrderService_updateOrderStatus(prods, ords, orderId, data.status,
                                            userId, isAdmin)
        ELSE OrderService_updateOrder(prods, ords, orderId, data, userId, isAdmin)

\* EngagementController.addComment: commentSchema wants a comment of at least
\* one character; the parsed comment and the body's contentOwnerId go to
\* createComment
EngagementController_addComment(engs, lastId, ranks, userId, contentId, contentType, body, rankOk) ==
    IF Len(body.comment) < 1
    THEN [err |-> ErrInvalidData, engagements |-> engs, lastId |-> lastId,
          rankings |-> ranks]
    ELSE EngagementService_createComment(engs, lastId, ranks, userId, contentId,
                                         contentType, body.comment,
                                         body.contentOwnerId, rankOk)

(* --------------------------- HTTP answers ----------------------------- *)

\* Which of the fragments that the handlers look for with message.includes
\* occurs in each message (the comparison is case-sensitive).
Fragments(message) ==
    CASE message \in {ErrProductNotFound, ErrOrderNotFound, ErrLikeNotFound,
                      ErrCommentNotFound} -> {"not found"}
      [] message = ErrNotAvailable -> {"not available"}
      [] message = ErrNotEnoughStock -> {"stock"}
      [] message = ErrPriceMismatch -> {"price"}
      [] message \in {ErrNotAuthorizedUpdate, ErrNotAuthorizedCancel,
                      ErrNotAuthorizedDelete} -> {"not authorized"}
      [] message \in {ErrCannotTransition, ErrCompletedTerminal, ErrCanceledTerminal,
                      ErrCannotUpdateCompleted} -> {"Cannot"}
      [] message \in {ErrSellersCanOnly, ErrBuyersCanOnly, ErrOwnProducts} -> {"can only"}
      [] message = ErrOnlyPending -> {"Only pending"}
      [] OTHER -> {}

\* error.message.includes(fragment)
Includes(message, fragment) == fragment \in Fragments(message)

\* OrderController.createOrder: the status code it answers with
OrderController_createOrder_status(message) ==
    IF message = OK THEN 201
    ELSE IF message = ErrInvalidData THEN 400
    ELSE IF \/ Includes(message, "not found")
            \/ Includes(message, "stock")
            \/ Includes(message, "price")
            \/ Includes(message, "not available")
    THEN 400
    ELSE 500

\* OrderController.updateOrderStatus: the status code it answers with
OrderController_updateOrderStatus_status(message) ==
    IF message = OK THEN 200
    ELSE IF message = ErrInvalidData THEN 400
    ELSE IF Includes(message, "not found") THEN 404
    ELSE IF Includes(message, "not authorized") \/ Includes(message, "can only") THEN 403
    ELSE IF Includes(message, "Cannot") THEN 400
    ELSE 500

\* OrderController.updateOrder: the status code it answers with
OrderController_updateOrder_status(message) ==
    IF message = OK THEN 200
    ELSE IF message = ErrInvalidData THEN 400
    ELSE IF Includes(message, "not found") THEN 404
    ELSE IF Includes(message, "not authorized") THEN 403
    ELSE IF Includes(message, "Cannot") THEN 400
    ELSE 500

\* OrderController.cancelOrder: the status code it answers with
OrderController_cancelOrder_status(message) ==
    IF message = OK THEN 200
    ELSE IF Includes(message, "not found") THEN 404
    ELSE IF Includes(message, "not authorized") THEN 403
    ELSE IF Includes(message, "Only pending") THEN 400
    ELSE 500

\* EngagementController.likeContent: the status code it answers with
EngagementController_likeContent_status(message) ==
    IF message = OK THEN 201
    ELSE IF message = ErrAlreadyLiked THEN 400
    ELSE 500

\* EngagementController.unlikeContent: the status code it answers with
EngagementController_unlikeContent_status(message) ==
    IF message = OK THEN 200
    ELSE IF message = ErrLikeNotFound THEN 404
    ELSE 500

\* EngagementController.addComment: the status code it answers with
EngagementController_addComment_status(message) ==
    IF message = OK THEN 201
    ELSE IF message = ErrInvalidData THEN 400
    ELSE 500

\* EngagementController.deleteComment: the status code it answers with
EngagementController_deleteComment_status(message) ==
    IF message = OK THEN 200
    ELSE IF message = ErrCommentNotFound THEN 404
    ELSE IF message = ErrNotAuthorizedDelete THEN 403
    ELSE 500

(* ------------------------------ handlers ------------------------------ *)

Init ==
    /\ products = <<>>
    /\ orders = <<>>
    /\ rankings = <<>>
    /\ engagements = {}
    /\ lastEngagementId = 0
    /\ calls = [p \in Requests |-> Idle]
    /\ listedStock = 0

\* POST /products: ProductController.createProduct
CreateProduct(userId, price, stock, isActive) ==
    /\ ProductId \notin DOMAIN products
    /\ products' = (ProductId :> [sellerId |-> userId, price |-> price,
                                  stock |-> stock, isActive |-> isActive])
    /\ listedStock' = stock
    /\ UNCHANGED <<orders, rankings, engagements, lastEngagementId, calls>>

\* POST /orders: OrderController.createOrder
CreateOrder(userId, body, storeOk) ==
    /\ \E r \in {OrderController_createOrder(products, orders, body, userId, storeOk)} :
           /\ Len(r.orders) <= MaxOrders
           /\ orders' = r.orders
           /\ products' = r.products
    /\ UNCHANGED <<rankings, engagementVars>>

\* PATCH /orders/:id/status: OrderController.updateOrderStatus
UpdateOrderStatus(userId, isAdmin, orderId, status) ==
    \E r \in {OrderController_updateOrderStatus(products, orders, rankings, orderId,
                                                status, userId, isAdmin)} :
        /\ orders' = r.orders
        /\ products' = r.products
        /\ rankings' = r.rankings
        /\ UNCHANGED engagementVars

\* PUT /orders/:id: OrderController.updateOrder
UpdateOrder(userId, isAdmin, orderId, body) ==
    /\ \E r \in {OrderController_updateOrder(products, orders, orderId, body,
                                             userId, isAdmin)} :
           /\ orders' = r.orders
           /\ products' = r.products
    /\ UNCHANGED <<rankings, engagementVars>>

\* POST /orders/:id/cancel: OrderController.cancelOrder
CancelOrder(userId, isAdmin, orderId, storeOk) ==
    /\ \E r \in {OrderService_cancelOrder(products, orders, orderId, userId,
                                          isAdmin, storeOk)} :
           /\ orders' = r.orders
           /\ products' = r.products
    /\ UNCHANGED <<rankings, engagementVars>>

\* the bodies sent to POST /orders: some carry a status, which the schema drops
PlainCreateBodies ==
    {[productId |-> ProductId, quantity |-> q, totalPrice |-> p * q + d] :
         q \in Quantities, p \in Prices, d \in PriceDeltas}

CreateBodies ==
    PlainCreateBodies \cup {b @@ [status |-> "completed"] : b \in PlainCreateBodies}

\* the bodies sent to PUT /orders/:id: an address, with or without a status, or
\* with a quantity, which the schema drops
UpdateBodies ==
    {[shippingAddress |-> a] : a \in Addresses}
    \cup {[status |-> s, shippingAddress |-> a] : s \in OrderStatus, a \in Addresses}
    \cup {[quantity |-> q, shippingAddress |-> a] : q \in Quantities, a \in Addresses}

Next ==
    \/ \E u \in Sellers, p \in Prices, s \in Stocks, a \in BOOLEAN :
           CreateProduct(u, p, s, a)
    \/ \E u \in Buyers, b \in CreateBodies, ok \in BOOLEAN :
           CreateOrder(u, b, ok)
    \/ \E u \in Users, adm \in BOOLEAN, o \in 1..MaxOrders, s \in OrderStatus :
           UpdateOrderStatus(u, adm, o, s)
    \/ \E u \in Users, adm \in BOOLEAN, o \in 1..MaxOrders, b \in UpdateBodies :
           UpdateOrder(u, adm, o, b)
    \/ \E u \in Users, adm \in BOOLEAN, o \in 1..MaxOrders, ok \in BOOLEAN :
           CancelOrder(u, adm, o, ok)

Spec == Init /\ [][Next]_vars

(* ------------------------- engagement handlers ------------------------ *)

\* what the engagement handlers never touch
orderVars == <<products, orders, listedStock>>

\* the store after an engagement handler has run
EngagementResult(r) ==
    /\ r.lastId <= MaxEngagements
    /\ engagements' = r.engagements
    /\ lastEngagementId' = r.lastId
    /\ rankings' = r.rankings
    /\ UNCHANGED <<orderVars, calls>>

\* POST /engagement/:contentType/:contentId/like: EngagementController.likeContent
LikeContent(userId, contentOwnerId, rankOk) ==
    \E r \in {EngagementService_createLike(engagements, lastEngagementId, rankings,
                                           userId, ContentId, "Post", contentOwnerId,
                                           rankOk)} :
        EngagementResult(r)

\* DELETE /engagement/:contentId/like: EngagementController.unlikeContent
UnlikeContent(userId, contentOwnerId, rankOk) ==
    \E r \in {EngagementService_removeLike(engagements, lastEngagementId, rankings,
                                           userId, ContentId, contentOwnerId, rankOk)} :
        EngagementResult(r)

\* POST /engagement/:contentType/:contentId/comment: EngagementController.addComment
AddComment(userId, body, rankOk) ==
    \E r \in {EngagementController_addComment(engagements, lastEngagementId, rankings,
                                              userId, ContentId, "Post", body, rankOk)} :
        EngagementResult(r)

\* DELETE /engagement/comment/:commentId: EngagementController.deleteComment
DeleteComment(userId, isAdmin, commentId, contentOwnerId, rankOk) ==
    \E r \in {EngagementService_deleteComment(engagements, lastEngagementId, rankings,
                                              commentId, userId, isAdmin,
                                              contentOwnerId, rankOk)} :
        EngagementResult(r)

\* POST /engagement/:contentType/:contentId/share: EngagementController.shareContent
ShareContent(userId, contentOwnerId, rankOk) ==
    \E r \in {EngagementService_createShare(engagements, lastEngagementId, rankings,
                                            userId, ContentId, "Post", contentOwnerId,
                                            rankOk)} :
        EngagementResult(r)

CommentBodies ==
    {[comment |-> c, contentOwnerId |-> o] : c \in Comments, o \in Owners}

NextEngagement ==
    \/ \E u \in Actors, o \in Owners, ok \in BOOLEAN : LikeContent(u, o, ok)
    \/ \E u \in Actors, o \in Owners, ok \in BOOLEAN : UnlikeContent(u, o, ok)
    \/ \E u \in Actors, b \in CommentBodies, ok \in BOOLEAN : AddComment(u, b, ok)
    \/ \E u \in Actors, adm \in BOOLEAN, c \in 1..MaxEngagements, o \in Owners,
          ok \in BOOLEAN :
           DeleteComment(u, adm, c, o, ok)
    \/ \E u \in Actors, o \in Owners, ok \in BOOLEAN : ShareContent(u, o, ok)

\* the engagement handlers run one at a time
SpecEngagement == Init /\ [][NextEngagement]_vars

(* ------------------- adjustRanking, one await at a time --------------- *)

\* what a running adjustRanking call never touches
callFrame == <<products, orders, engagements, lastEngagementId, listedStock>>

\* a request enters adjustRanking(userId, categoryId, adjustment)
AdjustStart(p, userId, categoryId, adjustment) ==
    /\ calls[p].pc = "idle"
    /\ calls[p].served < MaxCalls
    /\ calls' = [calls EXCEPT ![p] =
                     [pc |-> "find", served |-> calls[p].served,
                      userId |-> userId, categoryId |-> categoryId,
                      adjustment |-> adjustment]]
    /\ UNCHANGED <<rankings, callFrame>>

\* `await this.rankingRepository.findRanking(userId, categoryId)` resolves
AdjustFind(p) ==
    /\ calls[p].pc = "find"
    /\ calls' = [calls EXCEPT ![p] =
                     [pc |-> "write", served |-> calls[p].served,
                      userId |-> calls[p].userId, categoryId |-> calls[p].categoryId,
                      adjustment |-> calls[p].adjustment,
                      existingRanking |->
                          RankingRepository_findRanking(rankings, calls[p].userId,
                                                        calls[p].categoryId)]]
    /\ UNCHANGED <<rankings, callFrame>>

\* Faulty variant of AdjustWrite: the update adds the adjustment to the score
\* stored at the time of the write.
AdjustWrite_Increment(p) ==
    /\ calls[p].pc = "write"
    /\ \E r \in {IF calls[p].existingRanking.found
                 THEN RankingRepository_updateRanking(
                          rankings, calls[p].userId, calls[p].categoryId,
                          RankingRepository_findRanking(
                              rankings, calls[p].userId, calls[p].categoryId).score
                          + calls[p].adjustment)
                 ELSE RankingRepository_createRanking(
                          rankings, calls[p].userId, calls[p].categoryId,
                          calls[p].adjustment)} :
           /\ rankings' = r.rankings
           /\ calls' = [calls EXCEPT ![p] =
                            [pc |-> "done", served |-> calls[p].served,
                             userId |-> calls[p].userId,
                             categoryId |-> calls[p].categoryId,
                             adjustment |-> calls[p].adjustment,
                             existingRanking |-> calls[p].existingRanking,
                             err |-> r.err]]
    /\ UNCHANGED callFrame

\* `await updateRanking(.., {score: existingRanking.score + adjustment})` or
\* `await createRanking(.., {score: adjustment})` resolves or rejects
AdjustWrite(p) ==
    /\ calls[p].pc = "write"
    /\ \E r \in {IF calls[p].existingRanking.found
                 THEN RankingRepository_updateRanking(
                          rankings, calls[p].userId, calls[p].categoryId,
                          calls[p].existingRanking.score + calls[p].adjustment)
                 ELSE RankingRepository_createRanking(
                          rankings, calls[p].userId, calls[p].categoryId,
                          calls[p].adjustment)} :
           /\ rankings' = r.rankings
           /\ calls' = [calls EXCEPT ![p] =
                            [pc |-> "done", served |-> calls[p].served,
                             userId |-> calls[p].userId,
                             categoryId |-> calls[p].categoryId,
                             adjustment |-> calls[p].adjustment,
                             existingRanking |-> calls[p].existingRanking,
                             err |-> r.err]]
    /\ UNCHANGED callFrame

\* the call has returned or thrown and the request is at rest again
AdjustReturn(p) ==
    /\ calls[p].pc = "done"
    /\ calls' = [calls EXCEPT ![p] = [pc |-> "idle", served |-> calls[p].served + 1]]
    /\ UNCHANGED <<rankings, callFrame>>

NextAdjust ==
    \/ \E p \in Requests, u \in CallUsers, c \in CallCategories, d \in CallDeltas :
           AdjustStart(p, u, c, d)
    \/ \E p \in Requests : AdjustFind(p)
    \/ \E p \in Requests : AdjustWrite(p)
    \/ \E p \in Requests : AdjustReturn(p)

\* adjustRanking calls of several requests, interleaved at their awaits
SpecAdjust == Init /\ [][NextAdjust]_vars

(* ---------------- order requests, one await at a time ----------------- *)

\* at most this many order rows are inserted by the interleaved requests
MaxRaceOrders == 2

\* the stock the product is listed with, and who calls what
RaceStocks == {0, 1, 2}
RaceBuyers == {"u2"}
RaceCancellers == {"u1", "u2"}
RaceStatusCalls == {<<"u1", "processing">>, <<"u1", "completed">>, <<"u2", "canceled">>}

\* what a running order request never touches
orderFrame == <<rankings, engagements, lastEngagementId, listedStock>>

\* the frame of request p at position pc, with the fields of `more` set
Goto(p, pc, more) == [calls EXCEPT ![p] = [pc |-> pc] @@ more @@ calls[p]]

\* the requests that have entered createOrder and not yet inserted their row
Inserting == {q \in Requests : calls[q].pc \in {"createOrder.find", "createOrder.create"}}

\* a request enters OrderService.createOrder with the total the product's price
\* asks for
CreateOrderStart(p, userId, quantity, price) ==
    /\ calls[p].pc = "idle"
    /\ calls[p].served < MaxCalls
    /\ Len(orders) + Cardinality(Inserting) < MaxRaceOrders
    /\ calls' = Goto(p, "createOrder.find",
                     [orderData |-> [buyerId |-> userId, productId |-> ProductId,
                                     quantity |-> quantity,
                                     totalPrice |-> price * quantity]])
    /\ UNCHANGED <<products, orders, orderFrame>>

\* `await this.productService.getProductById(..)` resolves and the checks run on
\* the product row that was read
CreateOrderFind(p) ==
    /\ calls[p].pc = "createOrder.find"
    /\ \E check \in {createOrderChecks(products, calls[p].orderData)} :
           calls' = IF check # OK
                    THEN Goto(p, "returned", [err |-> check])
                    ELSE Goto(p, "createOrder.create",
                              [product |-> products[calls[p].orderData.productId]])
    /\ UNCHANGED <<products, orders, orderFrame>>

\* `await this.orderRepository.create(orderData)` resolves
CreateOrderInsert(p) ==
    /\ calls[p].pc = "createOrder.create"
    /\ orders' = OrderRepository_create(orders, calls[p].orderData)
    /\ calls' = Goto(p, "createOrder.stock", <<>>)
    /\ UNCHANGED <<products, orderFrame>>

\* Faulty variant of CreateOrderStock: the quantity is taken off the stock
\* stored at the time of the write.
CreateOrderStock_Decrement(p) ==
    /\ calls[p].pc = "createOrder.stock"
    /\ \E up \in {ProductService_updateProduct(
                      products, calls[p].orderData.productId, calls[p].product.sellerId,
                      [stock |-> products[calls[p].orderData.productId].stock
                                     - calls[p].orderData.quantity],
                      TRUE, TRUE)} :
           /\ products' = up.products
           /\ calls' = Goto(p, "returned", [err |-> up.err])
    /\ UNCHANGED <<orders, orderFrame>>

\* `await this.productService.updateProduct(.., {stock: product.stock -
\* orderData.quantity}, true)` resolves: the stock written is computed from the
\* row read at the start of the call (updateProduct's own read only checks that
\* the product exists)
CreateOrderStock(p) ==
    /\ calls[p].pc = "createOrder.stock"
    /\ \E up \in {ProductService_updateProduct(
                      products, calls[p].orderData.productId, calls[p].product.sellerId,
                      [stock |-> calls[p].product.stock - calls[p].orderData.quantity],
                      TRUE, TRUE)} :
           /\ products' = up.products
           /\ calls' = Goto(p, "returned", [err |-> up.err])
    /\ UNCHANGED <<orders, orderFrame>>

\* a request enters OrderService.cancelOrder
CancelOrderStart(p, userId, isAdmin, orderId) ==
    /\ calls[p].pc = "idle"
    /\ calls[p].served < MaxCalls
    /\ orderId \in 1..Len(orders)
    /\ calls' = Goto(p, "cancelOrder.find",
                     [orderId |-> orderId, userId |-> userId, isAdmin |-> isAdmin])
    /\ UNCHANGED <<products, orders, orderFrame>>

\* `await this.orderRepository.findById(orderId)` resolves and the checks run on
\* the order row (joined with its product row) that was read
CancelOrderFind(p) ==
    /\ calls[p].pc = "cancelOrder.find"
    /\ \E order \in {OrderRepository_findById(orders, products, calls[p].orderId)} :
           calls' = IF order.id = 0
                    THEN Goto(p, "returned", [err |-> ErrOrderNotFound])
                    ELSE IF /\ ~calls[p].isAdmin
                            /\ order.buyerId # calls[p].userId
                            /\ order.product.sellerId # calls[p].userId
                    THEN Goto(p, "returned", [err |-> ErrNotAuthorizedCancel])
                    ELSE IF order.status # "pending"
                    THEN Goto(p, "returned", [err |-> ErrOnlyPending])
                    ELSE Goto(p, "cancelOrder.update", [order |-> order])
    /\ UNCHANGED <<products, orders, orderFrame>>

\* `await this.orderRepository.update(orderId, {status: 'canceled'})` resolves
CancelOrderUpdate(p) ==
    /\ calls[p].pc = "cancelOrder.update"
    /\ orders' = OrderRepository_update(orders, calls[p].orderId, [status |-> "canceled"])
    /\ calls' = Goto(p, "cancelOrder.stock", <<>>)
    /\ UNCHANGED <<products, orderFrame>>

\* Faulty variant of CancelOrderStock: the quantity is added to the stock stored
\* at the time of the write.
CancelOrderStock_Increment(p) ==
    /\ calls[p].pc = "cancelOrder.stock"
    /\ \E up \in {ProductService_updateProduct(
                      products, calls[p].order.productId, calls[p].order.product.sellerId,
                      [stock |-> products[calls[p].order.productId].stock
                                     + calls[p].order.quantity],
                      TRUE, TRUE)} :
           /\ products' = up.products
           /\ calls' = Goto(p, "returned", [err |-> up.err])
    /\ UNCHANGED <<orders, orderFrame>>

\* `await this.productService.updateProduct(.., {stock: order.product.stock +
\* order.quantity}, true)` resolves: the stock written is computed from the
\* product row that came with the order row read at the start of the call
CancelOrderStock(p) ==
    /\ calls[p].pc = "cancelOrder.stock"
    /\ \E up \in {ProductService_updateProduct(
                      products, calls[p].order.productId, calls[p].order.product.sellerId,
                      [stock |-> calls[p].order.product.stock + calls[p].order.quantity],
                      TRUE, TRUE)} :
           /\ products' = up.products
           /\ calls' = Goto(p, "returned", [err |-> up.err])
    /\ UNCHANGED <<orders, orderFrame>>

\* a request enters OrderService.updateOrderStatus
UpdateOrderStatusStart(p, userId, isAdmin, orderId, status) ==
    /\ calls[p].pc = "idle"
    /\ calls[p].served < MaxCalls
    /\ orderId \in 1..Len(orders)
    /\ calls' = Goto(p, "updateOrderStatus.find",
                     [orderId |-> orderId, userId |-> userId, isAdmin |-> isAdmin,
                      status |-> status])
    /\ UNCHANGED <<products, orders, orderFrame>>

\* `await this.orderRepository.findById(orderId)` resolves; authorization and
\* validateStatusTransition run on the order row that was read
UpdateOrderStatusFind(p) ==
    /\ calls[p].pc = "updateOrderStatus.find"
    /\ \E order \in {OrderRepository_findById(orders, products, calls[p].orderId)} :
           calls' = IF order.id = 0
                    THEN Goto(p, "returned", [err |-> ErrOrderNotFound])
                    ELSE IF /\ ~calls[p].isAdmin
                            /\ order.product.sellerId # calls[p].userId
                            /\ order.buyerId # calls[p].userId
                    THEN Goto(p, "returned", [err |-> ErrNotAuthorizedUpdate])
                    ELSE LET v == validateStatusTransition(order.status, calls[p].status,
                                                           calls[p].userId, order)
                         IN  IF v # OK THEN Goto(p, "returned", [err |-> v])
                             ELSE Goto(p, "updateOrderStatus.update", <<>>)
    /\ UNCHANGED <<products, orders, orderFrame>>

\* `await this.orderRepository.update(orderId, {status})` resolves
UpdateOrderStatusUpdate(p) ==
    /\ calls[p].pc = "updateOrderStatus.update"
    /\ orders' = OrderRepository_update(orders, calls[p].orderId,
                                        [status |-> calls[p].status])
    /\ calls' = Goto(p, "returned", [err |-> OK])
    /\ UNCHANGED <<products, orderFrame>>

\* the call has returned or thrown and the request is at rest again
OrderReturn(p) ==
    /\ calls[p].pc = "returned"
    /\ calls' = [calls EXCEPT ![p] = [pc |-> "idle", served |-> calls[p].served + 1]]
    /\ UNCHANGED <<products, orders, orderFrame>>

NextOrderRace ==
    \/ \E u \in Sellers, price \in Prices, s \in RaceStocks : CreateProduct(u, price, s, TRUE)
    \/ \E p \in Requests, u \in RaceBuyers, q \in Quantities, price \in Prices :
           CreateOrderStart(p, u, q, price)
    \/ \E p \in Requests : CreateOrderFind(p)
    \/ \E p \in Requests : CreateOrderInsert(p)
    \/ \E p \in Requests : CreateOrderStock(p)
    \/ \E p \in Requests, u \in RaceCancellers, o \in 1..MaxRaceOrders :
           CancelOrderStart(p, u, FALSE, o)
    \/ \E p \in Requests : CancelOrderFind(p)
    \/ \E p \in Requests : CancelOrderUpdate(p)
    \/ \E p \in Requests : CancelOrderStock(p)
    \/ \E p \in Requests, c \in RaceStatusCalls, o \in 1..MaxRaceOrders :
           UpdateOrderStatusStart(p, c[1], FALSE, o, c[2])
    \/ \E p \in Requests : UpdateOrderStatusFind(p)
    \/ \E p \in Requests : UpdateOrderStatusUpdate(p)
    \/ \E p \in Requests : OrderReturn(p)

\* createOrder, cancelOrder and updateOrderStatus calls of several requests,
\* interleaved at their awaits
SpecOrderRace == Init /\ [][NextOrderRace]_vars

NextStockRace ==
    \/ \E u \in Sellers, price \in Prices, s \in RaceStocks : CreateProduct(u, price, s, TRUE)
    \/ \E p \in Requests, u \in RaceBuyers, q \in Quantities, price \in Prices :
           CreateOrderStart(p, u, q, price)
    \/ \E p \in Requests : CreateOrderFind(p)
    \/ \E p \in Requests : CreateOrderInsert(p)
    \/ \E p \in Requests : CreateOrderStock(p)
    \/ \E p \in Requests, u \in RaceCancellers, o \in 1..MaxRaceOrders :
           CancelOrderStart(p, u, FALSE, o)
    \/ \E p \in Requests : CancelOrderFind(p)
    \/ \E p \in Requests : CancelOrderUpdate(p)
    \/ \E p \in Requests : CancelOrderStock(p)
    \/ \E p \in Requests : OrderReturn(p)

\* createOrder and cancelOrder calls only, interleaved at their awaits
SpecStockRace == Init /\ [][NextStockRace]_vars

(* ------------------- createLike, one await at a time ------------------ *)

\* what a running createLike call never touches
likeFrame == <<products, orders, listedStock>>

\* the requests that have entered createLike and not yet inserted their row
Liking == {q \in Requests : calls[q].pc \in {"createLike.find", "createLike.create"}}

\* a request enters EngagementService.createLike on the content
CreateLikeStart(p, userId, contentOwnerId) ==
    /\ calls[p].pc = "idle"
    /\ calls[p].served < MaxCalls
    /\ lastEngagementId + Cardinality(Liking) < MaxEngagements
    /\ calls' = Goto(p, "createLike.find",
                     [userId |-> userId, contentOwnerId |-> contentOwnerId])
    /\ UNCHANGED <<engagements, lastEngagementId, rankings, likeFrame>>

\* `await this.engagementRepository.findUserEngagement(userId, contentId,
\* EngagementType.Like)` resolves; an existing like ends the call
CreateLikeFind(p) ==
    /\ calls[p].pc = "createLike.find"
    /\ \E existingLike \in {EngagementRepository_findUserEngagement(
                                engagements, calls[p].userId, ContentId, "Like")} :
           calls' = IF existingLike.id # 0
                    THEN Goto(p, "returned", [err |-> ErrAlreadyLiked])
                    ELSE Goto(p, "createLike.create", <<>>)
    /\ UNCHANGED <<engagements, lastEngagementId, rankings, likeFrame>>

\* `await this.engagementRepository.create({.., type: EngagementType.Like})`
\* resolves; the ranking update follows when the owner is known and is not the
\* actor
CreateLikeCreate(p) ==
    /\ calls[p].pc = "createLike.create"
    /\ \E like \in {EngagementRepository_create(
                        engagements, lastEngagementId,
                        [userId |-> calls[p].userId, contentId |-> ContentId,
                         contentType |-> "Post", type |-> "Like",
                         comment |-> NoComment])} :
           /\ engagements' = like.engagements
           /\ lastEngagementId' = like.lastId
    /\ calls' = IF OwnerIsKnown(calls[p].contentOwnerId, calls[p].userId)
                THEN Goto(p, "createLike.findRanking", <<>>)
                ELSE Goto(p, "returned", [err |-> OK])
    /\ UNCHANGED <<rankings, likeFrame>>

\* applyPostEngagementRanking -> adjustRanking(owner, 'content', 1):
\* `await this.rankingRepository.findRanking(userId, categoryId)` resolves
CreateLikeFindRanking(p) ==
    /\ calls[p].pc = "createLike.findRanking"
    /\ calls' = Goto(p, "createLike.writeRanking",
                     [existingRanking |->
                          RankingRepository_findRanking(rankings, calls[p].contentOwnerId,
                                                        "content")])
    /\ UNCHANGED <<engagements, lastEngagementId, rankings, likeFrame>>

\* adjustRanking's `await updateRanking(..)` or `await createRanking(..)` resolves
\* or rejects; createLike logs a rejection and returns the like
CreateLikeWriteRanking(p) ==
    /\ calls[p].pc = "createLike.writeRanking"
    /\ \E r \in {IF calls[p].existingRanking.found
                 THEN RankingRepository_updateRanking(
                          rankings, calls[p].contentOwnerId, "content",
                          calls[p].existingRanking.score + 1 * 1 * 1000)
                 ELSE RankingRepository_createRanking(
                          rankings, calls[p].contentOwnerId, "content",
                          1 * 1 * 1000)} :
           rankings' = r.rankings
    /\ calls' = Goto(p, "returned", [err |-> OK])
    /\ UNCHANGED <<engagements, lastEngagementId, likeFrame>>

\* the call has returned or thrown and the request is at rest again
CreateLikeReturn(p) ==
    /\ calls[p].pc = "returned"
    /\ calls' = [calls EXCEPT ![p] = [pc |-> "idle", served |-> calls[p].served + 1]]
    /\ UNCHANGED <<engagements, lastEngagementId, rankings, likeFrame>>

NextLikeRace ==
    \/ \E p \in Requests, u \in Actors, owner \in Owners : CreateLikeStart(p, u, owner)
    \/ \E p \in Requests : CreateLikeFind(p)
    \/ \E p \in Requests : CreateLikeCreate(p)
    \/ \E p \in Requests : CreateLikeFindRanking(p)
    \/ \E p \in Requests : CreateLikeWriteRanking(p)
    \/ \E p \in Requests : CreateLikeReturn(p)

\* createLike calls of several requests, interleaved at their awaits
SpecLikeRace == Init /\ [][NextLikeRace]_vars

(* ============================== claims ================================ *)

Terminal == {"completed", "canceled"}

\* the transition table of the specification
Edges ==
    {<<"pending", "processing">>, <<"pending", "completed">>, <<"pending", "canceled">>,
     <<"processing", "completed">>, <<"processing", "shipped">>,
     <<"processing", "canceled">>, <<"shipped", "completed">>}

\* the messages the order routes answer with 403
ForbiddenErrs ==
    {ErrNotAuthorizedUpdate, ErrNotAuthorizedCancel, ErrSellersCanOnly, ErrBuyersCanOnly}

OrderIds == 1..Len(orders)
SellerId == products[ProductId].sellerId
Stock == products[ProductId].stock

\* C1: on an order that is completed or canceled every updateOrderStatus call
\* fails, whoever calls and whatever the target, and the status stays.
C1_TerminalRejectsEveryUpdate ==
    \A o \in OrderIds, u \in Users, adm \in BOOLEAN, s \in OrderStatus :
        orders[o].status \in Terminal =>
            LET r == OrderService_updateOrderStatus(products, orders, o, s, u, adm)
            IN  r.err # OK /\ r.orders[o].status = orders[o].status

\* a completed order on which an admin's update is refused as terminal
C1_Witness ==
    \E o \in OrderIds :
        /\ orders[o].status = "completed"
        /\ OrderService_updateOrderStatus(products, orders, o, "canceled", "u3", TRUE).err
               = ErrCompletedTerminal

C3_CreateOrderDecrementsStock ==
    \A u \in Buyers, b \in CreateBodies, ok \in BOOLEAN :
        LET r == OrderController_createOrder(products, orders, b, u, ok)
        IN  r.err = OK =>
                /\ Len(r.orders) = Len(orders) + 1
                /\ SubSeq(r.orders, 1, Len(orders)) = orders
                /\ r.orders[Len(orders) + 1].status = "pending"
                /\ r.orders[Len(orders) + 1].quantity = b.quantity
                /\ r.products[ProductId].stock = Stock - b.quantity

\* stock 5, quantity 2, total 20.00: one pending order and stock 3
C3_Witness ==
    /\ Len(orders) = 1
    /\ orders[1].status = "pending"
    /\ orders[1].quantity = 2
    /\ orders[1].totalPrice = 2000
    /\ Stock = 3

\* the outcome of createOrder as the specification orders the checks
ExpectedCreateOutcome(quantity, totalPrice) ==
    IF ProductId \notin DOMAIN products THEN ErrProductNotFound
    ELSE IF ~products[ProductId].isActive THEN ErrNotAvailable
    ELSE IF Stock < quantity THEN ErrNotEnoughStock
    ELSE IF products[ProductId].price * quantity - totalPrice \notin -1..1
    THEN ErrPriceMismatch
    ELSE OK

C5_NoPartialEffectOnFailure ==
    \A u \in Buyers, b \in CreateBodies, ok \in BOOLEAN :
        LET r == OrderController_createOrder(products, orders, b, u, ok)
        IN  r.err # OK => r.orders = orders /\ r.products = products

\* C6: the buyer of a pending order who sets it to canceled through
\* updateOrderStatus succeeds, and the stock is restored by the order's quantity
\* (stated for a buyer who is not the product's seller).
C6_BuyerCancelRestoresStock ==
    \A o \in OrderIds :
        (orders[o].status = "pending" /\ orders[o].buyerId # SellerId) =>
            LET r == OrderService_updateOrderStatus(products, orders, o, "canceled",
                                                    orders[o].buyerId, FALSE)
            IN  /\ r.err = OK
                /\ r.orders[o].status = "canceled"
                /\ r.products[ProductId].stock = Stock + orders[o].quantity

\* C7: for a non-admin and a transition of the table, the buyer succeeds exactly
\* with canceled and the seller exactly with processing, shipped or completed;
\* every other target is Forbidden and leaves the order as it was.
C7_RoleRestriction ==
    \A o \in OrderIds, u \in Users, s \in OrderStatus :
        <<orders[o].status, s>> \in Edges =>
            LET r == OrderService_updateOrderStatus(products, orders, o, s, u, FALSE)
            IN  /\ u = orders[o].buyerId =>
                       IF s = "canceled" THEN r.err = OK ELSE r.err \in ForbiddenErrs
                /\ u = SellerId =>
                       IF s \in {"processing", "shipped", "completed"}
                       THEN r.err = OK ELSE r.err \in ForbiddenErrs
                /\ r.err \in ForbiddenErrs => r.orders = orders

\* C8: someone who is no admin, not the buyer and not the seller is refused by
\* updateOrderStatus and by cancelOrder on every order, in every status and for
\* every target, and nothing changes.
C8_StrangerForbidden ==
    \A o \in OrderIds, u \in Users :
        (u # orders[o].buyerId /\ u # SellerId) =>
            /\ \A s \in OrderStatus :
                   LET r == OrderService_updateOrderStatus(products, orders, o, s, u, FALSE)
                   IN  /\ r.err = ErrNotAuthorizedUpdate
                       /\ r.orders = orders
                       /\ r.products = products
            /\ \A ok \in BOOLEAN :
                   LET r == OrderService_cancelOrder(products, orders, o, u, FALSE, ok)
                   IN  /\ r.err = ErrNotAuthorizedCancel
                       /\ r.orders = orders
                       /\ r.products = products

\* a completed order that a stranger tries to move and to cancel
C8_Witness ==
    \E o \in OrderIds :
        /\ orders[o].status = "completed"
        /\ "u3" \notin {orders[o].buyerId, SellerId}
        /\ OrderService_updateOrderStatus(products, orders, o, "canceled", "u3", FALSE).err
               = ErrNotAuthorizedUpdate
        /\ OrderService_cancelOrder(products, orders, o, "u3", FALSE, TRUE).err
               = ErrNotAuthorizedCancel

\* C9: cancelOrder by the buyer, the seller or an admin succeeds only on a pending
\* order, which becomes canceled with the stock raised by its quantity (so that
\* createOrder followed by cancelOrder returns the stock); on any other order it
\* fails with "Only pending orders can be canceled" and changes nothing.
C9_CancelOnlyPending ==
    /\ \A o \in OrderIds, u \in Users, adm \in BOOLEAN, ok \in BOOLEAN :
           (adm \/ u = orders[o].buyerId \/ u = SellerId) =>
               LET r == OrderService_cancelOrder(products, orders, o, u, adm, ok)
               IN  /\ r.err = OK =>
                       /\ orders[o].status = "pending"
                       /\ r.orders[o].status = "canceled"
                       /\ r.products[ProductId].stock = Stock + orders[o].quantity
                   /\ orders[o].status # "pending" =>
                       /\ r.err = ErrOnlyPending
                       /\ r.orders = orders
                       /\ r.products = products
    /\ \A u \in Buyers, b \in CreateBodies :
           LET c == OrderController_createOrder(products, orders, b, u, TRUE)
           IN  c.err = OK =>
                   LET r == OrderService_cancelOrder(c.products, c.orders, Len(c.orders),
                                                     u, FALSE, TRUE)
                   IN  r.err = OK /\ r.products[ProductId].stock = Stock

\* a canceled order whose stock is back at 5, and which cannot be canceled again
C9_Witness ==
    \E o \in OrderIds :
        /\ orders[o].status = "canceled"
        /\ Stock = 5
        /\ OrderService_cancelOrder(products, orders, o, orders[o].buyerId, FALSE, TRUE).err
               = ErrOnlyPending

\* C10: a successful update to completed adjusts the seller's scores: sales by
\* 10% of the order's total and reputation by 5.
C10_CompletionAdjustsRanking ==
    \A o \in OrderIds, u \in Users, adm \in BOOLEAN :
        LET r == OrderController_updateOrderStatus(products, orders, rankings, o,
                                                   "completed", u, adm)
        IN  r.err = OK =>
                r.rankings = applyOrderCompletionRanking(
                                 rankings, SellerId, orders[o].buyerId,
                                 orders[o].totalPrice, TRUE, TRUE, TRUE).rankings

(* ----------------------- rankings and engagements --------------------- *)

\* the adjustments the services hand to adjustRanking, in thousandths
Deltas == {-3000, -1000, 1000, 3000}

\* the stored score of a pair, 0 when it has no row
Score(ranks, userId, categoryId) ==
    RankingRepository_findRanking(ranks, userId, categoryId).score

HasRow(ranks, userId, categoryId) == RankingRows(ranks, userId, categoryId) # {}

\* the score rows of the pairs other than this one, in table order
OtherRows(ranks, userId, categoryId) ==
    SelectSeq(ranks, LAMBDA row : row.userId # userId \/ row.categoryId # categoryId)

\* C11: adjustRanking by d1 and then by d2, run one after the other, leaves the
\* pair at its stored score (0 without a row) plus d1 plus d2, the first call
\* creating a missing row with score d1; d2 then d1 gives the same, and the rows
\* of the other pairs stay.
C11_SequentialAdjustmentsAdd ==
    \A u \in Actors, c \in Categories, d1 \in Deltas, d2 \in Deltas :
        LET initial == Score(rankings, u, c)
            first == adjustRanking(rankings, u, c, d1)
            both == adjustRanking(first, u, c, d2)
            swapped == adjustRanking(adjustRanking(rankings, u, c, d2), u, c, d1)
        IN  /\ HasRow(first, u, c)
            /\ Score(first, u, c) = initial + d1
            /\ Score(both, u, c) = initial + d1 + d2
            /\ swapped = both
            /\ Cardinality(RankingRows(both, u, c)) = 1
            /\ OtherRows(both, u, c) = OtherRows(rankings, u, c)

\* u1 has a content score, u2 has no row yet and gets one from two adjustments
C11_Witness ==
    /\ Score(rankings, "u1", "content") = 4000
    /\ ~HasRow(rankings, "u2", "content")
    /\ Score(adjustRanking(adjustRanking(rankings, "u2", "content", 3000),
                           "u2", "content", -1000), "u2", "content") = 2000
    /\ Score(adjustRanking(adjustRanking(rankings, "u1", "content", 3000),
                           "u1", "content", -1000), "u1", "content") = 6000

\* two requests whose adjustRanking calls on one pair have both finished
BothDone(p, q) ==
    /\ p # q
    /\ calls[p].pc = "done"
    /\ calls[q].pc = "done"
    /\ calls[p].userId = calls[q].userId
    /\ calls[p].categoryId = calls[q].categoryId

\* C12: two adjustRanking calls on a pair that has a row, both reading the score
\* before either writes, both return successfully and the stored score ends at
\* the score read plus the adjustment of one of them: the other update is lost.
C12_ConcurrentUpdateIsLost ==
    \A p \in Requests, q \in Requests :
        (/\ BothDone(p, q)
         /\ calls[p].existingRanking.found
         /\ calls[q].existingRanking.found
         /\ calls[p].existingRanking.score = calls[q].existingRanking.score) =>
            /\ calls[p].err = OK
            /\ calls[q].err = OK
            /\ Score(rankings, calls[p].userId, calls[p].categoryId)
                   \in {calls[p].existingRanking.score + calls[p].adjustment,
                        calls[p].existingRanking.score + calls[q].adjustment}
            /\ Score(rankings, calls[p].userId, calls[p].categoryId)
                   # calls[p].existingRanking.score + calls[p].adjustment
                     + calls[q].adjustment

\* the score was 1000; +1000 and +3000 both succeeded and the score is 4000
C12_Witness ==
    /\ BothDone(1, 2)
    /\ calls[1].existingRanking = [found |-> TRUE, score |-> 1000]
    /\ calls[2].existingRanking = [found |-> TRUE, score |-> 1000]
    /\ calls[1].adjustment = 1000
    /\ calls[2].adjustment = 3000
    /\ calls[1].err = OK
    /\ calls[2].err = OK
    /\ Score(rankings, calls[1].userId, calls[1].categoryId) = 4000

\* C13: a pair never has two score rows; when two adjustRanking calls both find
\* no row, one create succeeds and the other is refused by the unique key, and
\* the score is the adjustment of the call that created the row.
C13_OneRowPerPair ==
    /\ \A u \in Users, c \in Categories : Cardinality(RankingRows(rankings, u, c)) <= 1
    /\ \A p \in Requests, q \in Requests :
           (/\ BothDone(p, q)
            /\ ~calls[p].existingRanking.found
            /\ ~calls[q].existingRanking.found) =>
               /\ {calls[p].err, calls[q].err} = {OK, ErrUniqueConstraint}
               /\ \A w \in {p, q} :
                      calls[w].err = OK =>
                          Score(rankings, calls[w].userId, calls[w].categoryId)
                              = calls[w].adjustment

\* both calls saw no row; request 1 created it with 1000, request 2 was refused
C13_Witness ==
    /\ BothDone(1, 2)
    /\ ~calls[1].existingRanking.found
    /\ ~calls[2].existingRanking.found
    /\ calls[1].adjustment = 1000
    /\ calls[2].adjustment = 3000
    /\ calls[1].err = OK
    /\ calls[2].err = ErrUniqueConstraint
    /\ Score(rankings, calls[1].userId, calls[1].categoryId) = 1000
    /\ Len(rankings) = 1

\* the like rows of an actor on the content
Likes(engs, userId) ==
    {e \in engs : e.userId = userId /\ e.contentId = ContentId /\ e.type = "Like"}

\* C14: for actors A # B, a successful createLike(A, content, owner B) adds one
\* like row and raises B's content score by exactly 1; removeLike(A, content,
\* owner B) right after it succeeds, removes that row and returns B's content
\* score to its value before the like (the ranking store working).
C14_LikeUnlikeRoundTrip ==
    \A a \in Actors, b \in Actors :
        a # b =>
            LET before == Score(rankings, b, "content")
                liked == EngagementService_createLike(
                             engagements, lastEngagementId, rankings,
                             a, ContentId, "Post", b, TRUE)
                unliked == EngagementService_removeLike(
                               liked.engagements, liked.lastId, liked.rankings,
                               a, ContentId, b, TRUE)
            IN  liked.err = OK =>
                    /\ Cardinality(Likes(liked.engagements, a)) = 1
                    /\ Cardinality(liked.engagements) = Cardinality(engagements) + 1
                    /\ Score(liked.rankings, b, "content") = before + 1000
                    /\ unliked.err = OK
                    /\ Likes(unliked.engagements, a) = {}
                    /\ unliked.engagements = engagements
                    /\ Score(unliked.rankings, b, "content") = before
                    /\ OtherRows(unliked.rankings, b, "content")
                           = OtherRows(rankings, b, "content")

\* u1 has liked u2's content, which earned u2 a score of 1: unliking takes the
\* row and the point away again
C14_Witness ==
    /\ Cardinality(Likes(engagements, "u1")) = 1
    /\ Cardinality(engagements) = 1
    /\ Score(rankings, "u2", "content") = 1000
    /\ LET unliked == EngagementService_removeLike(
                          engagements, lastEngagementId, rankings,
                          "u1", ContentId, "u2", TRUE)
       IN  /\ unliked.err = OK
           /\ unliked.engagements = {}
           /\ Score(unliked.rankings, "u2", "content") = 0

\* C15: createLike by an actor who already has a like on the content fails with
\* "User has already liked this content", inserts no row and changes no score;
\* with the handlers run one at a time an actor never has two likes on a content.
C15_OneLikePerActor ==
    /\ \A a \in Actors : Cardinality(Likes(engagements, a)) <= 1
    /\ \A a \in Actors, o \in Owners, ok \in BOOLEAN :
           Likes(engagements, a) # {} =>
               LET r == EngagementService_createLike(
                            engagements, lastEngagementId, rankings,
                            a, ContentId, "Post", o, ok)
               IN  /\ r.err = ErrAlreadyLiked
                   /\ r.engagements = engagements
                   /\ r.lastId = lastEngagementId
                   /\ r.rankings = rankings

\* u1 and u2 have each liked the content once; a second like by u1 is refused
C15_Witness ==
    /\ Cardinality(Likes(engagements, "u1")) = 1
    /\ Cardinality(Likes(engagements, "u2")) = 1
    /\ EngagementService_createLike(engagements, lastEngagementId, rankings,
                                    "u1", ContentId, "Post", "u2", TRUE).err
           = ErrAlreadyLiked

\* the comment rows
CommentRows(engs) == {e \in engs : e.type = "Comment"}

\* C16: deleteComment by someone who is neither an admin nor the author of the
\* comment fails with "You are not authorized to delete this comment"; the
\* comment row stays and no score row changes, whatever owner the caller names.
C16_ForeignDeleteForbidden ==
    \A e \in CommentRows(engagements), u \in Actors, o \in Owners, ok \in BOOLEAN :
        u # e.userId =>
            LET r == EngagementService_deleteComment(
                         engagements, lastEngagementId, rankings,
                         e.id, u, FALSE, o, ok)
            IN  /\ r.err = ErrNotAuthorizedDelete
                /\ e \in r.engagements
                /\ r.engagements = engagements
                /\ r.rankings = rankings

\* u1's comment earned u2 a score of 3; u2 may not delete it
C16_Witness ==
    \E e \in CommentRows(engagements) :
        /\ e.userId = "u1"
        /\ Score(rankings, "u2", "content") = 3000
        /\ EngagementService_deleteComment(
               engagements, lastEngagementId, rankings,
               e.id, "u2", FALSE, "u1", TRUE).err = ErrNotAuthorizedDelete

\* C17: when the ranking update fails inside createLike, removeLike,
\* createComment, deleteComment or createShare, the operation still succeeds
\* wherever it succeeds with a working ranking store, its own row is inserted or
\* deleted all the same, and the score rows are left as they were.
C17_RankingFailureIsSwallowed ==
    \A a \in Actors, o \in Actors :
        LET like == EngagementService_createLike(
                        engagements, lastEngagementId, rankings,
                        a, ContentId, "Post", o, FALSE)
            unlike == EngagementService_removeLike(
                          engagements, lastEngagementId, rankings,
                          a, ContentId, o, FALSE)
            comment == EngagementService_createComment(
                           engagements, lastEngagementId, rankings,
                           a, ContentId, "Post", <<"h", "i">>, o, FALSE)
            share == EngagementService_createShare(
                         engagements, lastEngagementId, rankings,
                         a, ContentId, "Post", o, FALSE)
        IN  /\ Likes(engagements, a) = {} =>
                   /\ like.err = OK
                   /\ Cardinality(Likes(like.engagements, a)) = 1
                   /\ like.rankings = rankings
            /\ Likes(engagements, a) # {} =>
                   /\ unlike.err = OK
                   /\ Likes(unlike.engagements, a) = {}
                   /\ unlike.rankings = rankings
            /\ comment.err = OK
            /\ Cardinality(CommentRows(comment.engagements))
                   = Cardinality(CommentRows(engagements)) + 1
            /\ comment.rankings = rankings
            /\ share.err = OK
            /\ Cardinality(share.engagements) = Cardinality(engagements) + 1
            /\ share.rankings = rankings
            /\ \A e \in engagements, adm \in BOOLEAN :
                   (adm \/ e.userId = a) =>
                       LET del == EngagementService_deleteComment(
                                      engagements, lastEngagementId, rankings,
                                      e.id, a, adm, o, FALSE)
                       IN  /\ del.err = OK
                           /\ del.engagements = engagements \ {e}
                           /\ del.rankings = rankings

\* u1 has commented on and liked u2's content while the ranking store was down:
\* both rows are there, u2 has no score, and the next ranking failure does not
\* stop u1 from deleting the comment
C17_Witness ==
    /\ Cardinality(Likes(engagements, "u1")) = 1
    /\ \E e \in CommentRows(engagements) :
           /\ e.userId = "u1"
           /\ EngagementService_deleteComment(
                  engagements, lastEngagementId, rankings,
                  e.id, "u1", FALSE, "u2", FALSE).err = OK
    /\ rankings = <<>>

(* --------------------------- order details ---------------------------- *)

\* patches of type UpdateOrderInput: any of status, quantity, totalPrice and
\* shippingAddress
UpdateOrderInput ==
    {[shippingAddress |-> a] : a \in Addresses}
    \cup {[status |-> st] : st \in OrderStatus}
    \cup {[quantity |-> q] : q \in Quantities}
    \cup {[totalPrice |-> p * q] : p \in Prices, q \in Quantities}

\* C18: whatever patch OrderService.updateOrder accepts, the order's status,
\* quantity and total price after the call are those before it.
C18_UpdateOrderKeepsStatus ==
    \A o \in OrderIds, u \in Users, adm \in BOOLEAN, patch \in UpdateOrderInput :
        LET r == OrderService_updateOrder(products, orders, o, patch, u, adm)
        IN  r.err = OK =>
                /\ r.orders[o].status = orders[o].status
                /\ r.orders[o].quantity = orders[o].quantity
                /\ r.orders[o].totalPrice = orders[o].totalPrice

(* ---------------------------- HTTP answers ---------------------------- *)

\* the status code the specification fixes for each failure
ExpectedStatus(message) ==
    CASE message \in {ErrProductNotFound, ErrOrderNotFound, ErrLikeNotFound,
                      ErrCommentNotFound} -> 404
      [] message \in {ErrNotAuthorizedUpdate, ErrNotAuthorizedCancel,
                      ErrNotAuthorizedDelete, ErrSellersCanOnly, ErrBuyersCanOnly} -> 403
      [] message \in {ErrInvalidData, ErrCommentRequired, ErrPriceMismatch,
                      ErrNotEnoughStock, ErrNotAvailable, ErrCannotTransition,
                      ErrCompletedTerminal, ErrCanceledTerminal, ErrOnlyPending,
                      ErrCannotUpdateCompleted} -> 400
      [] message = ErrAlreadyLiked -> 409
      [] OTHER -> 500

\* C19: whenever an order or engagement operation fails, the handler of every
\* route that ran it answers with the status code fixed for the failure:
\* NotFound 404, Forbidden 403, invalid input or state 400, AlreadyExists 409,
\* anything else 500.
C19_StatusMapping ==
    /\ \A u \in Buyers, b \in CreateBodies, ok \in BOOLEAN :
           LET r == OrderController_createOrder(products, orders, b, u, ok)
           IN  r.err # OK =>
                   OrderController_createOrder_status(r.err) = ExpectedStatus(r.err)
    /\ \A o \in 1..MaxOrders, u \in Users, adm \in BOOLEAN :
           /\ \A st \in OrderStatus :
                  LET r == OrderController_updateOrderStatus(products, orders, rankings,
                                                             o, st, u, adm)
                  IN  r.err # OK =>
                          OrderController_updateOrderStatus_status(r.err)
                              = ExpectedStatus(r.err)
           /\ \A b \in UpdateBodies :
                  LET r == OrderController_updateOrder(products, orders, o, b, u, adm)
                  IN  r.err # OK =>
                          OrderController_updateOrder_status(r.err) = ExpectedStatus(r.err)
           /\ \A ok \in BOOLEAN :
                  LET r == OrderService_cancelOrder(products, orders, o, u, adm, ok)
                  IN  r.err # OK =>
                          OrderController_cancelOrder_status(r.err) = ExpectedStatus(r.err)
    /\ \A a \in Actors, o \in Owners, ok \in BOOLEAN :
           /\ LET r == EngagementService_createLike(
                           engagements, lastEngagementId, rankings,
                           a, ContentId, "Post", o, ok)
              IN  r.err # OK =>
                      EngagementController_likeContent_status(r.err)
                          = ExpectedStatus(r.err)
           /\ LET r == EngagementService_removeLike(
                           engagements, lastEngagementId, rankings,
                           a, ContentId, o, ok)
              IN  r.err # OK =>
                      EngagementController_unlikeContent_status(r.err)
                          = ExpectedStatus(r.err)
           /\ \A c \in Comments :
                  LET r == EngagementController_addComment(
                               engagements, lastEngagementId, rankings,
                               a, ContentId, "Post",
                               [comment |-> c, contentOwnerId |-> o], ok)
                  IN  r.err # OK =>
                          EngagementController_addComment_status(r.err)
                              = ExpectedStatus(r.err)
           /\ \A id \in 1..MaxEngagements, adm \in BOOLEAN :
                  LET r == EngagementService_deleteComment(
                               engagements, lastEngagementId, rankings,
                               id, a, adm, o, ok)
                  IN  r.err # OK =>
                          EngagementController_deleteComment_status(r.err)
                              = ExpectedStatus(r.err)

\* C20: an admin's updateOrderStatus succeeds for every transition of the table,
\* also when the admin is the buyer of the order or the seller of the product.
C20_AdminExemptFromRoleRules ==
    \A o \in OrderIds, u \in Users, s \in OrderStatus :
        <<orders[o].status, s>> \in Edges =>
            LET r == OrderService_updateOrderStatus(products, orders, o, s, u, TRUE)
            IN  r.err = OK /\ r.orders[o].status = s

\* C21: on a pending order cancelOrder succeeds for exactly the actors for whom
\* updateOrderStatus with target canceled succeeds; a seller who is no admin
\* can do neither.
C21_CancelMatchesStatusUpdate ==
    \A o \in OrderIds, u \in Users, adm \in BOOLEAN :
        orders[o].status = "pending" =>
            LET c == OrderService_cancelOrder(products, orders, o, u, adm, TRUE)
                s == OrderService_updateOrderStatus(products, orders, o, "canceled",
                                                    u, adm)
            IN  /\ (c.err = OK) <=> (s.err = OK)
                /\ (u = SellerId /\ ~adm) => c.err # OK

\* C22: after createComment(A, content, owner B) with A # B has raised B's
\* content score by 3, every successful deleteComment of that comment with owner
\* B, by the author or by any admin, returns B's content score to its value
\* before the comment.
C22_DeleteCommentCompensates ==
    \A a \in Actors, b \in Actors, u \in Actors, adm \in BOOLEAN :
        a # b =>
            LET before == Score(rankings, b, "content")
                made == EngagementService_createComment(
                            engagements, lastEngagementId, rankings,
                            a, ContentId, "Post", <<"h", "i">>, b, TRUE)
                del == EngagementService_deleteComment(
                           made.engagements, made.lastId, made.rankings,
                           made.lastId, u, adm, b, TRUE)
            IN  (/\ made.err = OK
                 /\ Score(made.rankings, b, "content") = before + 3000
                 /\ del.err = OK) =>
                    Score(del.rankings, b, "content") = before

(* ------------------------- stock conservation ------------------------- *)

RECURSIVE ReservedFrom(_, _)
\* the quantities of the orders from position i on that are not canceled
ReservedFrom(ords, i) ==
    IF i > Len(ords) THEN 0
    ELSE (IF ords[i].status # "canceled" THEN ords[i].quantity ELSE 0)
         + ReservedFrom(ords, i + 1)

\* the units that the orders which are not canceled hold
Reserved(ords) == ReservedFrom(ords, 1)

\* C23: with createOrder, cancelOrder and updateOrderStatus run one at a time and
\* no stock edit by the seller, the stock plus the quantities of the orders that
\* are not canceled stays at the stock the product was listed with.
C23_StockConservedSequential ==
    [][\/ ProductId \notin DOMAIN products
       \/ products'[ProductId].stock + Reserved(orders')
              = products[ProductId].stock + Reserved(orders)]_vars

\* C24: under every interleaving of concurrent createOrder and cancelOrder calls
\* with positive quantities, on a product listed with a non-negative stock, the
\* stored stock is never negative.
C24_StockNeverNegative ==
    ProductId \in DOMAIN products => products[ProductId].stock >= 0

\* two createOrder calls have overlapped: the orders reserve more than the
\* product was listed with, and the stock written stands at zero
C24_Witness ==
    /\ ProductId \in DOMAIN products
    /\ products[ProductId].stock = 0
    /\ Reserved(orders) > listedStock
    /\ \E p \in Requests :
           /\ calls[p].pc = "returned"
           /\ "orderData" \in DOMAIN calls[p]
           /\ calls[p].err = OK

\* every request is at rest: the calls that were made have all finished
AllFinished == \A p \in Requests : calls[p].pc = "idle"

\* C25: for every interleaving of concurrent createOrder and cancelOrder calls
\* on one product, once all of them have finished the stock plus the quantities
\* of the non-canceled orders equals the stock the product was listed with, and
\* the non-canceled orders reserve no more than that.
C25_StockConservedConcurrent ==
    (AllFinished /\ ProductId \in DOMAIN products) =>
        /\ products[ProductId].stock + Reserved(orders) = listedStock
        /\ Reserved(orders) <= listedStock

\* C26: in every interleaving of concurrent updateOrderStatus and cancelOrder
\* calls on the same order, once the stored status is completed or canceled no
\* later write changes it.
C26_TerminalStableConcurrent ==
    [][\A o \in 1..Len(orders) : \/ orders[o].status \notin Terminal
                                 \/ orders'[o].status = orders[o].status]_vars

\* two cancelOrder calls on the same order have both written and returned, and
\* both had read the product with the same stock
BothCanceled(p, q) ==
    /\ p # q
    /\ calls[p].pc = "returned" /\ calls[q].pc = "returned"
    /\ "order" \in DOMAIN calls[p] /\ "order" \in DOMAIN calls[q]
    /\ calls[p].orderId = calls[q].orderId
    /\ calls[p].err = OK /\ calls[q].err = OK
    /\ calls[p].order.product.stock = calls[q].order.product.stock

\* C28: in every interleaving of two concurrent cancelOrder calls on the same
\* pending order, with no other request writing the product meanwhile, the final
\* stock is the stock before the cancels plus the order's quantity exactly once.
C28_DoubleCancelRestoresOnce ==
    \A p, q \in Requests :
        BothCanceled(p, q) =>
            products[ProductId].stock
                = calls[p].order.product.stock + calls[p].order.quantity

C28_Witness ==
    \E p, q \in Requests :
        /\ BothCanceled(p, q)
        /\ calls[p].userId # calls[q].userId
        /\ orders[calls[p].orderId].status = "canceled"
        /\ products[ProductId].stock = listedStock

\* the actors other than `owner` who have a like row on the content
Likers(engs, owner) == {a \in Actors : a # owner /\ Likes(engs, a) # {}}

\* C27: in every interleaving of concurrent createLike calls by the same actor
\* on the same content, at most one like row of that actor exists afterwards
\* and the owner's content score is raised by at most 1 (per actor who likes).
C27_OneLikeUnderConcurrency ==
    /\ \A a \in Actors : Cardinality(Likes(engagements, a)) <= 1
    /\ \A owner \in Actors :
           Score(rankings, owner, "content")
               <= 1000 * Cardinality(Likers(engagements, owner))

\* C29: an order whose buyer is also the product's seller, in a non-terminal
\* status, has at least one target status for which updateOrderStatus by that
\* user succeeds.
C29_SelfPurchaseCanProgress ==
    \A o \in OrderIds :
        (orders[o].buyerId = SellerId /\ orders[o].status \notin Terminal) =>
            \E t \in OrderStatus :
                OrderService_updateOrderStatus(products, orders, o, t,
                                               orders[o].buyerId, FALSE).err = OK

\* C30: applyOrderCompletionRanking is all-or-nothing for the seller: when it
\* returns an error neither the sales score nor the reputation score has
\* changed; when it returns success the sales score has changed by +10% or -5%
\* of the order value and the reputation score by +5 or -10.
C30_CompletionRankingAllOrNothing ==
    \A seller \in CallUsers, price \in Prices, q \in Quantities :
      \A wasSuccessful, salesOk, repOk \in BOOLEAN :
        LET r == applyOrderCompletionRanking(rankings, seller, "u2", price * q,
                                             wasSuccessful, salesOk, repOk)
            sales == Score(r.rankings, seller, "sales") - Score(rankings, seller, "sales")
            rep == Score(r.rankings, seller, "reputation")
                       - Score(rankings, seller, "reputation")
        IN  /\ r.err # OK => (sales = 0 /\ rep = 0)
            /\ r.err = OK =>
                   /\ sales = (IF wasSuccessful THEN price * q ELSE -((price * q) \div 2))
                   /\ rep = (IF wasSuccessful THEN 5000 ELSE -10000)

====
